---- MODULE Spec2Model ----
(***************************************************************************)
(* Model of scripts/purgeShift_x_mk4s.py: a PrusaSlicer post-processing    *)
(* script that moves the MK4S purge line to one of five slots.             *)
(*                                                                         *)
(* Text is modelled at the level the script looks at it:                   *)
(*   - a command-line argument is a sequence of characters;                *)
(*   - a G-code line is a record: leading whitespace, the command word,    *)
(*     and the coordinate words that follow it, separated by one blank;    *)
(*   - a coordinate word is an axis letter and a numeral, the numeral      *)
(*     being a sequence of characters ("1","0",".","2","5").               *)
(* Numbers are kept in thousandths (1.5 is 1500).  Python floats are       *)
(* followed exactly as long as no sum falls on a decimal tie that is not   *)
(* a binary fraction (x.x5 other than x.25 and x.75); no numeral of the    *)
(* pools below produces one.                                               *)
(***************************************************************************)
EXTENDS Integers, Sequences, FiniteSets, TLC

VARIABLES
    sys_argv,               \* sys.argv, program name first
    fsStatus,               \* what the file system answers for the G-code path
    disk,                   \* content of the G-code file on disk
    pc,                     \* position of the script
    inclusion_mask,
    gcode_file,
    lines,
    selected_purge_slot,
    offset,
    first_object_start_x,
    scan_i,                 \* index of the next line of the analyzer loop (l.100)
    reverse_purge,
    in_purge_block,
    purge_block_processed,
    output_lines,
    rw_i,                   \* index of the next line of the rewrite loop (l.151)
    exitCode,
    err,                    \* which error message was printed
    disk0,                  \* history: content of the file when the run started
    opens,                  \* history: number of open() calls made
    writes,                 \* history: number of times the file was written
    rule                    \* history: substitution applied to each emitted line

vars == <<sys_argv, fsStatus, disk, pc, inclusion_mask, gcode_file, lines,
          selected_purge_slot, offset, first_object_start_x, scan_i,
          reverse_purge, in_purge_block, purge_block_processed, output_lines,
          rw_i, exitCode, err, disk0, opens, writes, rule>>

(***************************************************************************)
(* Bounds                                                                  *)
(***************************************************************************)
MaxLines == 3

(***************************************************************************)
(* Program constants                                                       *)
(***************************************************************************)
SlotSpacing == 46
PurgeSpan == 66

\* A Python name is modelled as <<>> while it is unbound or bound to None,
\* and as <<v>> once it holds the value v.
None == <<>>
Some(v) == <<v>>
V(x) == x[1]

(***************************************************************************)
(* Numerals: float(), round(.., 1) and the f-string rendering              *)
(***************************************************************************)
DigitVal ==
    ("0" :> 0) @@ ("1" :> 1) @@ ("2" :> 2) @@ ("3" :> 3) @@ ("4" :> 4) @@
    ("5" :> 5) @@ ("6" :> 6) @@ ("7" :> 7) @@ ("8" :> 8) @@ ("9" :> 9)

DigitChar == <<"0", "1", "2", "3", "4", "5", "6", "7", "8", "9">>

Abs(n) == IF n < 0 THEN -n ELSE n

RECURSIVE NatOf(_)
NatOf(ds) ==
    IF ds = <<>> THEN 0
    ELSE NatOf(SubSeq(ds, 1, Len(ds) - 1)) * 10 + DigitVal[ds[Len(ds)]]

RECURSIVE Pow10(_)
Pow10(k) == IF k = 0 THEN 1 ELSE 10 * Pow10(k - 1)

DotPos(s) ==
    IF \E k \in 1..Len(s) : s[k] = "."
    THEN CHOOSE k \in 1..Len(s) : s[k] = "."
    ELSE Len(s) + 1

\* float(text), in thousandths
ParseFloat(s) ==
    LET neg  == Len(s) > 0 /\ s[1] = "-"
        body == IF neg THEN Tail(s) ELSE s
        d    == DotPos(body)
        ip   == SubSeq(body, 1, d - 1)
        fp   == SubSeq(body, d + 1, Len(body))
        mag  == NatOf(ip) * 1000 + NatOf(fp) * Pow10(3 - Len(fp))
    IN  IF neg THEN -mag ELSE mag

\* round(x, 1): thousandths to tenths, ties to even
Round1(s) ==
    LET m  == Abs(s)
        q  == m \div 100
        r  == m % 100
        up == r > 50 \/ (r = 50 /\ q % 2 = 1)
        t  == IF up THEN q + 1 ELSE q
    IN  IF s < 0 THEN -t ELSE t

RECURSIVE StrNat(_)
StrNat(n) ==
    IF n < 10 THEN <<DigitChar[n + 1]>>
    ELSE StrNat(n \div 10) \o <<DigitChar[(n % 10) + 1]>>

\* str() of a float that round(.., 1) returned; s is the unrounded value,
\* whose sign the result keeps (round(-0.04, 1) prints as -0.0)
FmtRound1(s) ==
    LET t == Abs(Round1(s))
    IN  (IF s < 0 THEN <<"-">> ELSE <<>>)
        \o StrNat(t \div 10) \o <<".">> \o StrNat(t % 10)

(***************************************************************************)
(* Lines                                                                   *)
(***************************************************************************)
Tok(a, n) == [axis |-> a, num |-> n]
Ln(c, ts) == [indent |-> FALSE, cmd |-> c, toks |-> ts]

\* str.upper() on the command words and axis letters that occur
Upper(w) ==
    CASE w = "g0" -> "G0"
      [] w = "g1" -> "G1"
      [] w = "g29" -> "G29"
      [] w = "x" -> "X"
      [] w = "y" -> "Y"
      [] OTHER -> w

\* x_pattern / y_pattern (l.86-87): an axis letter, in either case, followed
\* by a numeral; a pattern is named by its letter
x_pattern == "X"
y_pattern == "Y"

\* the pattern matches the coordinate word
Matches(pattern, tok) == Upper(tok.axis) = pattern

\* pattern.search(line): index of the first matching word, 0 when none
Search(pattern, line) ==
    IF \E k \in 1..Len(line.toks) : Matches(pattern, line.toks[k])
    THEN CHOOSE k \in 1..Len(line.toks) :
            /\ Matches(pattern, line.toks[k])
            /\ \A h \in 1..(k - 1) : ~Matches(pattern, line.toks[h])
    ELSE 0

\* line.strip()
Strip(line) == [line EXCEPT !.indent = FALSE]

(***************************************************************************)
(* Inputs                                                                  *)
(***************************************************************************)
N0 == <<"0">>
N3 == <<"3">>
N5 == <<"5">>
N10 == <<"1", "0">>
N80 == <<"8", "0">>
N125 == <<"1", "2", "5">>
N170 == <<"1", "7", "0">>
N51_5 == <<"5", "1", ".", "5">>
N10_25 == <<"1", "0", ".", "2", "5">>
N2_125 == <<"2", ".", "1", "2", "5">>
Nm4 == <<"-", "4">>
Nm5 == <<"-", "5">>

LinePool ==
    { Ln("G29", <<Tok("X", N10_25), Tok("Y", Nm4)>>),
      Ln("G1",  <<Tok("X", N2_125), Tok("Y", Nm4), Tok("X", N51_5)>>),
      Ln("G1",  <<Tok("X", N3)>>),
      Ln("G0",  <<Tok("X", N10), Tok("Y", Nm5)>>),
      Ln("G0",  <<Tok("X", N51_5)>>),
      Ln("G1",  <<Tok("X", N80), Tok("Y", N10)>>),
      Ln("G1",  <<Tok("X", N170), Tok("Y", N10)>>),
      Ln("G1",  <<Tok("X", N125), Tok("Y", N10)>>),
      Ln("G1",  <<Tok("X", N5), Tok("Y", N0)>>),
      Ln("G1",  <<Tok("Y", N5), Tok("X", N3)>>),
      Ln("M104", <<>>) }

Files == UNION { [1..n -> LinePool] : n \in 0..MaxLines }

PathF == <<"f">>
M00100 == <<"0", "0", "1", "0", "0">>
M11011 == <<"1", "1", "0", "1", "1">>
M00000 == <<"0", "0", "0", "0", "0">>
M0102 == <<"0", "1", "0", "2">>
M001000 == <<"0", "0", "1", "0", "0", "0">>
M11111 == <<"1", "1", "1", "1", "1">>
Prog == <<"p">>

MaskPool == {M00100, M11011, M00000, M0102, M001000}

ArgvPool ==
    {<<Prog>>, <<Prog, PathF>>, <<Prog, M00100>>, <<Prog, M00100, PathF, PathF>>}
    \cup { <<Prog, m, PathF>> : m \in MaskPool }

FsPool == {"ok", "notfound", "perm", "ioerror", "readonly"}

\* the runs: every command line on a readable and writable file, and the
\* plain command line on a file in each other condition
InputPool ==
    { <<argv, "ok">> : argv \in ArgvPool }
    \cup { <<<<Prog, PathF>>, st>> : st \in FsPool }

\* what open() meets at a path
Stat(path) == IF path = PathF THEN fsStatus ELSE "notfound"

Init ==
    /\ \E input \in InputPool :
            /\ sys_argv = input[1]
            /\ fsStatus = input[2]
    /\ disk \in Files
    /\ disk0 = disk
    /\ pc = "params"
    /\ inclusion_mask = None
    /\ gcode_file = None
    /\ lines = None
    /\ selected_purge_slot = None
    /\ offset = None
    /\ first_object_start_x = None
    /\ scan_i = 1
    /\ reverse_purge = None
    /\ in_purge_block = None
    /\ purge_block_processed = None
    /\ output_lines = None
    /\ rw_i = 1
    /\ exitCode = None
    /\ err = "none"
    /\ opens = 0
    /\ writes = 0
    /\ rule = <<>>

\* sys.exit(code) after printing message kind e
Exit(code, e) ==
    /\ pc' = "exit"
    /\ exitCode' = Some(code)
    /\ err' = e

(***************************************************************************)
(* Parameter check (l.40-63)                                               *)
(***************************************************************************)
\* the test without its second half
MaskOk_format_only(s) ==
    /\ Len(s) = 5
    /\ \A k \in 1..Len(s) : s[k] \in {"0", "1"}

\* re.fullmatch(r'[01]{5}', s) and '1' in s
MaskOk(s) ==
    /\ Len(s) = 5
    /\ \A k \in 1..Len(s) : s[k] \in {"0", "1"}
    /\ \E k \in 1..Len(s) : s[k] = "1"

\* the upper limit one too low
BadArgCount_off_by_one(argv) == Len(argv) < 2 \/ Len(argv) > 2

\* l.41
BadArgCount(argv) == Len(argv) < 2 \/ Len(argv) > 3

UsageError ==
    /\ pc = "params"
    /\ BadArgCount(sys_argv)
    /\ Exit(1, "usage")
    /\ UNCHANGED <<sys_argv, fsStatus, disk, inclusion_mask, gcode_file, lines,
                   selected_purge_slot, offset, first_object_start_x, scan_i,
                   reverse_purge, in_purge_block, purge_block_processed,
                   output_lines, rw_i, disk0, opens, writes, rule>>

OneArg ==
    /\ pc = "params"
    /\ ~BadArgCount(sys_argv)
    /\ Len(sys_argv) = 2
    /\ gcode_file' = Some(sys_argv[2])
    /\ inclusion_mask' = Some(M11111)
    /\ pc' = "open"
    /\ UNCHANGED <<sys_argv, fsStatus, disk, lines, selected_purge_slot, offset,
                   first_object_start_x, scan_i, reverse_purge, in_purge_block,
                   purge_block_processed, output_lines, rw_i, exitCode, err,
                   disk0, opens, writes, rule>>

TwoArgs ==
    /\ pc = "params"
    /\ ~BadArgCount(sys_argv)
    /\ Len(sys_argv) = 3
    /\ gcode_file' = Some(sys_argv[3])
    /\ IF MaskOk(sys_argv[2])
       THEN /\ inclusion_mask' = Some(sys_argv[2])
            /\ pc' = "open"
            /\ UNCHANGED <<exitCode, err>>
       ELSE /\ Exit(1, "mask")
            /\ UNCHANGED inclusion_mask
    /\ UNCHANGED <<sys_argv, fsStatus, disk, lines, selected_purge_slot, offset,
                   first_object_start_x, scan_i, reverse_purge, in_purge_block,
                   purge_block_processed, output_lines, rw_i,
                   disk0, opens, writes, rule>>

(***************************************************************************)
(* Open file (l.65-77)                                                     *)
(***************************************************************************)
\* a mode that truncates the file on opening ("w+")
OpenedForWriting(content) == <<>>

\* what the file holds once open(gcode_file, "r") has succeeded (l.67)
OpenedForReading(content) == content

OpenFile ==
    /\ pc = "open"
    /\ opens' = opens + 1
    /\ LET st == Stat(V(gcode_file))
       IN  CASE st \in {"ok", "readonly"} ->
                    /\ disk' = OpenedForReading(disk)
                    /\ lines' = Some(disk')
                    /\ pc' = "select"
                    /\ UNCHANGED <<exitCode, err>>
             [] st = "notfound" -> Exit(1, "notfound") /\ UNCHANGED <<lines, disk>>
             [] st = "perm" -> Exit(1, "perm") /\ UNCHANGED <<lines, disk>>
             [] OTHER -> Exit(1, "io") /\ UNCHANGED <<lines, disk>>
    /\ UNCHANGED <<sys_argv, fsStatus, inclusion_mask, gcode_file,
                   selected_purge_slot, offset, first_object_start_x, scan_i,
                   reverse_purge, in_purge_block, purge_block_processed,
                   output_lines, rw_i, disk0, writes, rule>>

(***************************************************************************)
(* Slot selection (l.28-38, l.79-94)                                       *)
(***************************************************************************)
\* the mask ignored
select_purge_slot_any(mask) == 0..4

\* the values select_purge_slot can return
select_purge_slot(mask) ==
    IF mask = None
    THEN 0..4
    ELSE { k - 1 : k \in { h \in 1..Len(V(mask)) : V(mask)[h] = "1" } }

SelectSlot ==
    /\ pc = "select"
    /\ \E s \in select_purge_slot(inclusion_mask) :
        /\ selected_purge_slot' = Some(s)
        /\ offset' = Some(s * SlotSpacing)
    /\ pc' = "scan"
    /\ UNCHANGED <<sys_argv, fsStatus, disk, inclusion_mask, gcode_file, lines,
                   first_object_start_x, scan_i, reverse_purge, in_purge_block,
                   purge_block_processed, output_lines, rw_i, exitCode, err,
                   disk0, opens, writes, rule>>

(***************************************************************************)
(* Start of the first object (l.96-115)                                    *)
(***************************************************************************)
\* line.upper().startswith("G1 X")
StartsG1X(line) ==
    /\ ~line.indent
    /\ Upper(line.cmd) = "G1"
    /\ Len(line.toks) >= 1
    /\ Upper(line.toks[1].axis) = "X"

\* the value of the Y word pattern.search finds, None when there is none
YValue(line) ==
    LET k == Search(y_pattern, line)
    IN  IF k = 0 THEN None ELSE Some(ParseFloat(line.toks[k].num))

\* Y = 0 taken for a positive Y
IsObjectStart_nonneg(line) ==
    /\ StartsG1X(line)
    /\ YValue(line) # None
    /\ V(YValue(line)) >= 0

\* l.101-105: the line is the first object's first move
IsObjectStart(line) ==
    /\ StartsG1X(line)
    /\ YValue(line) # None
    /\ V(YValue(line)) > 0

ScanStep ==
    /\ pc = "scan"
    /\ scan_i <= Len(V(lines))
    /\ IF IsObjectStart(V(lines)[scan_i])
       THEN /\ first_object_start_x' =
                    Some(ParseFloat(V(lines)[scan_i].toks[1].num))
            /\ pc' = "direction"
            /\ UNCHANGED scan_i
       ELSE /\ scan_i' = scan_i + 1
            /\ UNCHANGED <<first_object_start_x, pc>>
    /\ UNCHANGED <<sys_argv, fsStatus, disk, inclusion_mask, gcode_file, lines,
                   selected_purge_slot, offset, reverse_purge, in_purge_block,
                   purge_block_processed, output_lines, rw_i, exitCode, err,
                   disk0, opens, writes, rule>>

\* l.113-115: the loop ran off the end
ScanFail ==
    /\ pc = "scan"
    /\ scan_i > Len(V(lines))
    /\ first_object_start_x = None
    /\ Exit(1, "geometry")
    /\ UNCHANGED <<sys_argv, fsStatus, disk, inclusion_mask, gcode_file, lines,
                   selected_purge_slot, offset, first_object_start_x, scan_i,
                   reverse_purge, in_purge_block, purge_block_processed,
                   output_lines, rw_i, disk0, opens, writes, rule>>

(***************************************************************************)
(* Purge direction (l.117-134)                                             *)
(***************************************************************************)
\* the comparison not strict
ReversePurge_nonstrict(x0, off) ==
    Abs(x0 - (off + PurgeSpan) * 1000) >= Abs(x0 - off * 1000)

\* the comparison the other way round
ReversePurge_swapped(x0, off) ==
    Abs(x0 - (off + PurgeSpan) * 1000) < Abs(x0 - off * 1000)

\* the window taken to end at the on-bed end (51)
ReversePurge_span51(x0, off) ==
    Abs(x0 - (off + 51) * 1000) > Abs(x0 - off * 1000)

\* l.121-127, x0 in thousandths, off in millimetres
ReversePurge(x0, off) ==
    LET purge_lower_x == (off + 0) * 1000
        purge_upper_x == (off + PurgeSpan) * 1000
        dist_lower    == Abs(x0 - purge_lower_x)
        dist_upper    == Abs(x0 - purge_upper_x)
    IN  dist_upper > dist_lower

Direction ==
    /\ pc = "direction"
    /\ reverse_purge' = Some(ReversePurge(V(first_object_start_x), V(offset)))
    /\ in_purge_block' = Some(FALSE)
    /\ purge_block_processed' = Some(FALSE)
    /\ output_lines' = Some(<<>>)
    /\ pc' = "rewrite"
    /\ UNCHANGED <<sys_argv, fsStatus, disk, inclusion_mask, gcode_file, lines,
                   selected_purge_slot, offset, first_object_start_x, scan_i,
                   rw_i, exitCode, err, disk0, opens, writes, rule>>

(***************************************************************************)
(* Rewrite loop (l.136-185)                                                *)
(***************************************************************************)
\* round() called without the number of digits
shift_x_int(match) ==
    Tok("X", StrNat((ParseFloat(match.num) + V(offset) * 1000 + 500) \div 1000))

shift_x(match) ==
    Tok("X", FmtRound1(ParseFloat(match.num) + V(offset) * 1000))

\* the on-bed end (51) taken for the end of the window (66)
shift_flip_x_span51(match) ==
    IF V(reverse_purge)
    THEN Tok("X", FmtRound1((V(offset) + 51) * 1000 - ParseFloat(match.num)))
    ELSE Tok("X", FmtRound1(ParseFloat(match.num) + V(offset) * 1000))

shift_flip_x(match) ==
    IF V(reverse_purge)
    THEN Tok("X", FmtRound1((V(offset) + PurgeSpan) * 1000 - ParseFloat(match.num)))
    ELSE Tok("X", FmtRound1(ParseFloat(match.num) + V(offset) * 1000))

\* the substitution stopped after the first match (count=1)
sub_shift_x_first_only(line) ==
    [line EXCEPT !.toks =
        [k \in 1..Len(line.toks) |->
            IF k = Search(x_pattern, line)
            THEN shift_x(line.toks[k]) ELSE line.toks[k]]]

\* x_pattern.sub(shift_x, line) (l.167): every match is replaced
sub_shift_x(line) ==
    [line EXCEPT !.toks =
        [k \in 1..Len(line.toks) |->
            IF Matches(x_pattern, line.toks[k])
            THEN shift_x(line.toks[k]) ELSE line.toks[k]]]

\* x_pattern.sub(shift_flip_x, line) (l.174): every match is replaced
sub_shift_flip_x(line) ==
    [line EXCEPT !.toks =
        [k \in 1..Len(line.toks) |->
            IF Matches(x_pattern, line.toks[k])
            THEN shift_flip_x(line.toks[k]) ELSE line.toks[k]]]

\* the flag left alone at the end of the block
InPurgeAfter_no_reset(ipb1, ends) == ipb1

\* l.182: in_purge_block after the line, from its value ipb1 after l.163
InPurgeAfter(ipb1, ends) == IF ends THEN FALSE ELSE ipb1

\* l.156-163: the line opens the purge block
EntersPurge(stripped, ipb, pbp) ==
    /\ ~pbp /\ ~ipb
    /\ Upper(stripped.cmd) = "G0"
    /\ YValue(stripped) # None
    /\ V(YValue(stripped)) < 0

\* the test of l.154 left out
ProbeLine_unguarded(stripped, ipb, pbp) ==
    /\ ~ipb
    /\ Upper(stripped.cmd) # "G0"
    /\ Upper(stripped.cmd) \in {"G1", "G29"}

\* l.154-166: the line is rewritten as a probe line
ProbeLine(stripped, ipb, pbp) ==
    /\ ~pbp /\ ~ipb
    /\ Upper(stripped.cmd) # "G0"
    /\ Upper(stripped.cmd) \in {"G1", "G29"}

\* G1 written for G0
PurgeLine_g1(stripped, ipb1, pbp) ==
    /\ ~pbp /\ ipb1
    /\ Upper(stripped.cmd) = "G1"

\* l.171-172: the line is rewritten as a purge line; ipb1 is in_purge_block
\* after l.163
PurgeLine(stripped, ipb1, pbp) ==
    /\ ~pbp /\ ipb1
    /\ Upper(stripped.cmd) = "G0"

\* Y = 0 taken for a positive Y
EndsPurge_nonneg(stripped, ipb1, pbp) ==
    /\ ~pbp /\ ipb1
    /\ stripped.cmd = "G1"
    /\ YValue(stripped) # None
    /\ V(YValue(stripped)) >= 0

\* l.177-181: the line closes the purge block
EndsPurge(stripped, ipb1, pbp) ==
    /\ ~pbp /\ ipb1
    /\ stripped.cmd = "G1"
    /\ YValue(stripped) # None
    /\ V(YValue(stripped)) > 0

\* One iteration of the loop body (l.152-183) on a line, from the flags ipb
\* (in_purge_block) and pbp (purge_block_processed): the line to append,
\* the new flags, and which substitution ran.
RewriteLine(line, ipb, pbp) ==
    LET stripped == Strip(line)
        enters == EntersPurge(stripped, ipb, pbp)
        probe  == ProbeLine(stripped, ipb, pbp)
        ipb1   == IF enters THEN TRUE ELSE ipb
        line1  == IF probe THEN sub_shift_x(line) ELSE line
        purge  == PurgeLine(stripped, ipb1, pbp)
        line2  == IF purge THEN sub_shift_flip_x(line1) ELSE line1
        ends   == EndsPurge(stripped, ipb1, pbp)
    IN  [line |-> line2,
         ipb  |-> InPurgeAfter(ipb1, ends),
         pbp  |-> IF ends THEN TRUE ELSE pbp,
         rule |-> IF probe THEN "shift_x"
                  ELSE IF purge THEN "shift_flip_x" ELSE "none"]

\* the append indented under "if not purge_block_processed"
RewriteStep_append_inside ==
    /\ pc = "rewrite"
    /\ rw_i <= Len(V(lines))
    /\ LET r == RewriteLine(V(lines)[rw_i], V(in_purge_block),
                            V(purge_block_processed))
       IN  /\ output_lines' = IF V(purge_block_processed)
                              THEN output_lines
                              ELSE Some(Append(V(output_lines), r.line))
           /\ in_purge_block' = Some(r.ipb)
           /\ purge_block_processed' = Some(r.pbp)
           /\ rule' = IF V(purge_block_processed)
                      THEN rule ELSE Append(rule, r.rule)
    /\ rw_i' = rw_i + 1
    /\ UNCHANGED <<sys_argv, fsStatus, disk, pc, inclusion_mask, gcode_file,
                   lines, selected_purge_slot, offset, first_object_start_x,
                   scan_i, reverse_purge, exitCode, err, disk0, opens, writes>>

RewriteStep ==
    /\ pc = "rewrite"
    /\ rw_i <= Len(V(lines))
    /\ LET r == RewriteLine(V(lines)[rw_i], V(in_purge_block),
                            V(purge_block_processed))
       IN  /\ output_lines' = Some(Append(V(output_lines), r.line))
           /\ in_purge_block' = Some(r.ipb)
           /\ purge_block_processed' = Some(r.pbp)
           /\ rule' = Append(rule, r.rule)
    /\ rw_i' = rw_i + 1
    /\ UNCHANGED <<sys_argv, fsStatus, disk, pc, inclusion_mask, gcode_file,
                   lines, selected_purge_slot, offset, first_object_start_x,
                   scan_i, reverse_purge, exitCode, err, disk0, opens, writes>>

(***************************************************************************)
(* Write changes and final prompt (l.187-192)                              *)
(***************************************************************************)
\* l.188-189, once the loop is over; an unwritable file makes open() raise
WriteFile ==
    /\ pc = "rewrite"
    /\ rw_i > Len(V(lines))
    /\ opens' = opens + 1
    /\ IF Stat(V(gcode_file)) = "ok"
       THEN /\ disk' = V(output_lines)
            /\ writes' = writes + 1
            /\ pc' = "prompt"
            /\ UNCHANGED <<exitCode, err>>
       ELSE /\ Exit(1, "traceback")
            /\ UNCHANGED <<disk, writes>>
    /\ UNCHANGED <<sys_argv, fsStatus, inclusion_mask, gcode_file, lines,
                   selected_purge_slot, offset, first_object_start_x, scan_i,
                   reverse_purge, in_purge_block, purge_block_processed,
                   output_lines, rw_i, disk0, rule>>

\* l.192: input() returns on a line and raises EOFError at end of input;
\* nothing catches it, so the interpreter exits with status 1
Prompt ==
    /\ pc = "prompt"
    /\ \E stdin \in {"line", "eof"} :
        IF stdin = "line" THEN Exit(0, "none") ELSE Exit(1, "traceback")
    /\ UNCHANGED <<sys_argv, fsStatus, disk, inclusion_mask, gcode_file, lines,
                   selected_purge_slot, offset, first_object_start_x, scan_i,
                   reverse_purge, in_purge_block, purge_block_processed,
                   output_lines, rw_i, disk0, opens, writes, rule>>

Next ==
    \/ UsageError
    \/ OneArg
    \/ TwoArgs
    \/ OpenFile
    \/ SelectSlot
    \/ ScanStep
    \/ ScanFail
    \/ Direction
    \/ RewriteStep
    \/ WriteFile
    \/ Prompt

Spec == Init /\ [][Next]_vars

(***************************************************************************)
(* The purge rewrite over its whole window: runs on two-line files, a      *)
(* purge line G0 X<v> Y-5 for every whole v of the window 0..66, then an   *)
(* object start left of every slot (X0) or right of every slot (X250).     *)
(***************************************************************************)
N250 == <<"2", "5", "0">>

MapFiles ==
    { <<Ln("G0", <<Tok("X", StrNat(v)), Tok("Y", Nm5)>>),
        Ln("G1", <<Tok("X", x0), Tok("Y", N10)>>)>> :
      v \in 0..PurgeSpan, x0 \in {N0, N250} }

InitMap ==
    /\ sys_argv = <<Prog, PathF>>
    /\ fsStatus = "ok"
    /\ disk \in MapFiles
    /\ disk0 = disk
    /\ pc = "params"
    /\ inclusion_mask = None
    /\ gcode_file = None
    /\ lines = None
    /\ selected_purge_slot = None
    /\ offset = None
    /\ first_object_start_x = None
    /\ scan_i = 1
    /\ reverse_purge = None
    /\ in_purge_block = None
    /\ purge_block_processed = None
    /\ output_lines = None
    /\ rw_i = 1
    /\ exitCode = None
    /\ err = "none"
    /\ opens = 0
    /\ writes = 0
    /\ rule = <<>>

NextMap ==
    \/ OneArg
    \/ OpenFile
    \/ SelectSlot
    \/ ScanStep
    \/ Direction
    \/ RewriteStep
    \/ WriteFile
    \/ Prompt

SpecMap == InitMap /\ [][NextMap]_vars

(***************************************************************************)
(* Properties                                                              *)
(***************************************************************************)
Finished == pc = "exit"
Written == writes = 1

\* the kinds of error the script reports itself
ReportedErrors == {"usage", "mask", "notfound", "perm", "io", "geometry"}

\* a numeral with exactly one digit after its only decimal point
OneDecimal(num) ==
    /\ Len(num) >= 3
    /\ num[Len(num) - 1] = "."
    /\ \A k \in 1..Len(num) : (num[k] = ".") => (k = Len(num) - 1)
    /\ num[Len(num)] \in DOMAIN DigitVal

\* the numeral shows the value val (thousandths) rounded to one decimal
Shows(num, val) ==
    /\ OneDecimal(num)
    /\ Abs(ParseFloat(num) - val) <= 50

\* the positions of the X words of a line
XWords(line) == { t \in 1..Len(line.toks) : line.toks[t].axis \in {"X", "x"} }

\* the first Y word of a line is present and its value is positive / negative
HasY(line) == \E t \in 1..Len(line.toks) : line.toks[t].axis \in {"Y", "y"}
FirstY(line) ==
    LET t == CHOOSE u \in 1..Len(line.toks) :
                /\ line.toks[u].axis \in {"Y", "y"}
                /\ \A h \in 1..(u - 1) : line.toks[h].axis \notin {"Y", "y"}
    IN  ParseFloat(line.toks[t].num)

\* a line that begins "G1 X" and carries a positive Y
Qualifies(line) ==
    /\ ~line.indent
    /\ line.cmd \in {"G1", "g1"}
    /\ Len(line.toks) >= 1
    /\ line.toks[1].axis \in {"X", "x"}
    /\ HasY(line)
    /\ FirstY(line) > 0

\* index of the first qualifying line of a file, 0 when there is none
FirstQualifying(file) ==
    IF \E m \in 1..Len(file) : Qualifies(file[m])
    THEN CHOOSE m \in 1..Len(file) :
            /\ Qualifies(file[m])
            /\ \A h \in 1..(m - 1) : ~Qualifies(file[h])
    ELSE 0

\* a G0 line with a negative Y
OpensPurge(line) ==
    /\ line.cmd \in {"G0", "g0"}
    /\ HasY(line)
    /\ FirstY(line) < 0

\* index of the first such line of a file, 0 when there is none
FirstPurge(file) ==
    IF \E k \in 1..Len(file) : OpensPurge(file[k])
    THEN CHOOSE k \in 1..Len(file) :
            /\ OpensPurge(file[k])
            /\ \A h \in 1..(k - 1) : ~OpensPurge(file[h])
    ELSE 0

\* C1: a run that ends in a usage, mask, file access or geometry error exits
\* non-zero with the file as it was at the start; the file is written at
\* most once, and only after the read, the slot selection, the analysis and
\* the whole rewrite pass.
C1_ErrorsLeaveFile ==
    /\ (Finished /\ err \in ReportedErrors) =>
            (V(exitCode) # 0 /\ disk = disk0 /\ writes = 0)
    /\ writes <= 1
    /\ (writes >= 1) =>
            /\ lines # None
            /\ selected_purge_slot # None
            /\ first_object_start_x # None
            /\ output_lines # None
            /\ rw_i > Len(V(lines))
            /\ Len(V(output_lines)) = Len(V(lines))

C1_Witness ==
    /\ Finished
    /\ err = "geometry"
    /\ Len(disk0) >= 2
    /\ \E k \in 1..Len(disk0) : disk0[k].cmd = "G29"

\* the two distances the direction is decided on, from the slot (46 mm apart,
\* window 66 mm wide)
DistLower == Abs(V(first_object_start_x) - V(selected_purge_slot) * 46 * 1000)
DistUpper ==
    Abs(V(first_object_start_x) - (V(selected_purge_slot) * 46 + 66) * 1000)

\* C2 as stated: object start closer to offset gives flag false, closer to
\* offset+66 gives flag true, equidistant gives false.
C2_AsStated ==
    (reverse_purge # None) =>
        /\ (DistLower < DistUpper) => (V(reverse_purge) = FALSE)
        /\ (DistUpper < DistLower) => (V(reverse_purge) = TRUE)
        /\ (DistLower = DistUpper) => (V(reverse_purge) = FALSE)

\* C2 amended: object start closer to offset gives flag TRUE (reverse), closer
\* to offset+66 gives flag FALSE, equidistant gives FALSE.
C2_Direction ==
    (reverse_purge # None) =>
        /\ V(selected_purge_slot) \in 0..4
        /\ (DistLower < DistUpper) => (V(reverse_purge) = TRUE)
        /\ (DistUpper < DistLower) => (V(reverse_purge) = FALSE)
        /\ (DistLower = DistUpper) => (V(reverse_purge) = FALSE)

C2_Witness ==
    /\ reverse_purge # None
    /\ DistLower = DistUpper
    /\ V(reverse_purge) = FALSE
    /\ V(selected_purge_slot) = 2

ScenarioA ==
    <<Ln("G0", <<Tok("X", N10), Tok("Y", Nm5)>>),
      Ln("G1", <<Tok("X", N80), Tok("Y", N10)>>)>>
ScenarioB ==
    <<Ln("G0", <<Tok("X", N10), Tok("Y", Nm5)>>),
      Ln("G1", <<Tok("X", N170), Tok("Y", N10)>>)>>
G0_102 == Ln("G0", <<Tok("X", <<"1", "0", "2", ".", "0">>), Tok("Y", Nm5)>>)
G0_148 == Ln("G0", <<Tok("X", <<"1", "4", "8", ".", "0">>), Tok("Y", Nm5)>>)

\* End to end on a written file whose purge block opens at line k (first G0
\* with negative Y) and whose object starts at a later line: the X words of
\* line k are mirrored when the object start is closer to offset and shifted
\* when it is closer to offset+66 (lowerMirrors), or the other way round.
EndToEnd(lowerMirrors) ==
    LET k   == FirstPurge(disk0)
        m   == FirstQualifying(disk0)
        off == V(selected_purge_slot) * 46 * 1000
        x0  == ParseFloat(disk0[m].toks[1].num)
        dl  == Abs(x0 - off)
        du  == Abs(x0 - (off + 66000))
    IN  (Written /\ k # 0 /\ m > k) =>
            \A t \in XWords(disk0[k]) :
                LET v == ParseFloat(disk0[k].toks[t].num)
                    shifted  == v + off
                    mirrored == off + 66000 - v
                IN  /\ (dl < du) =>
                        Shows(disk[k].toks[t].num,
                              IF lowerMirrors THEN mirrored ELSE shifted)
                    /\ (du < dl) =>
                        Shows(disk[k].toks[t].num,
                              IF lowerMirrors THEN shifted ELSE mirrored)

\* C3 as stated: closer to offset rewrites X to v + offset (scenario A gives
\* G0 X102.0 Y-5), closer to offset+66 rewrites it to offset + 66 - v
\* (scenario B gives G0 X148.0 Y-5).
C3_AsStated ==
    /\ EndToEnd(FALSE)
    /\ (Written /\ disk0 = ScenarioA /\ V(selected_purge_slot) = 2) =>
            disk[1] = G0_102
    /\ (Written /\ disk0 = ScenarioB /\ V(selected_purge_slot) = 2) =>
            disk[1] = G0_148

\* C3 amended: closer to offset rewrites X to offset + 66 - v (scenario A
\* gives G0 X148.0 Y-5), closer to offset+66 rewrites it to v + offset
\* (scenario B gives G0 X102.0 Y-5).
C3_EndToEnd ==
    /\ EndToEnd(TRUE)
    /\ (Written /\ disk0 = ScenarioA /\ V(selected_purge_slot) = 2) =>
            disk[1] = G0_148
    /\ (Written /\ disk0 = ScenarioB /\ V(selected_purge_slot) = 2) =>
            disk[1] = G0_102

C3_Witness ==
    /\ Written
    /\ disk0 = ScenarioA
    /\ V(selected_purge_slot) = 2
    /\ disk[1] = G0_148
    /\ disk[2] = disk0[2]

\* the slots a mask allows: the indices, from 0, of its '1' digits
Allowed(mask) == { i \in 0..4 : mask[i + 1] = "1" }

\* C4: the slots select_purge_slot can return are exactly the indices of the
\* mask's '1' digits: none with a '0' digit is returned, each with a '1'
\* digit can be, and a mask with a single '1' always gives that index.
C4_SlotsOfMask ==
    /\ (selected_purge_slot # None) =>
            /\ V(selected_purge_slot) \in Allowed(V(inclusion_mask))
            /\ (Cardinality(Allowed(V(inclusion_mask))) = 1) =>
                    (Allowed(V(inclusion_mask)) = {V(selected_purge_slot)})
    /\ (pc = "select") =>
            \A i \in Allowed(V(inclusion_mask)) :
                ENABLED (SelectSlot /\ selected_purge_slot' = Some(i))

C4_Witness ==
    /\ selected_purge_slot = Some(4)
    /\ inclusion_mask = Some(M11011)

\* the strings of exactly five binary digits, at least one of them '1'
ValidMasks == [1..5 -> {"0", "1"}] \ {M00000}

\* C5: with two arguments the first is accepted as the mask iff it is five
\* binary digits with at least one '1'; any other string ends the run with an
\* error and a non-zero status before the file is opened, the file unchanged
\* and no slot selected.
C5_MaskValidation ==
    (Len(sys_argv) = 3 /\ pc # "params") =>
        IF sys_argv[2] \in ValidMasks
        THEN inclusion_mask = Some(sys_argv[2]) /\ err # "mask"
        ELSE /\ Finished
             /\ err = "mask"
             /\ V(exitCode) # 0
             /\ opens = 0
             /\ lines = None
             /\ disk = disk0
             /\ inclusion_mask = None
             /\ selected_purge_slot = None

C5_Witness ==
    /\ Finished
    /\ err = "mask"
    /\ sys_argv[2] = M00000
    /\ fsStatus = "ok"
    /\ Len(disk) > 0

\* C6 as stated: a run that has overwritten the file ends with status 0,
\* whatever the final prompt receives.
C6_AsStated ==
    /\ (pc = "prompt") => (Written /\ disk = V(output_lines))
    /\ (Finished /\ Written) => (V(exitCode) = 0)

\* C7: the analyzer returns the X value of the first line that begins "G1 X"
\* and carries Y > 0, skipping lines before it and ignoring lines after it;
\* it reports geometry-not-found iff the file has no such line.
C7_FirstObjectStart ==
    (lines # None /\ pc \notin {"select", "scan"}) =>
        LET m == FirstQualifying(V(lines))
        IN  /\ (err = "geometry") <=> (m = 0)
            /\ (m = 0) => (Finished /\ first_object_start_x = None)
            /\ (m # 0) =>
                    /\ first_object_start_x # None
                    /\ V(first_object_start_x) =
                          ParseFloat(V(lines)[m].toks[Search(x_pattern, V(lines)[m])].num)

C7_Witness ==
    /\ pc = "direction"
    /\ Len(V(lines)) = 3
    /\ V(lines)[1] = Ln("G1", <<Tok("X", N5), Tok("Y", N0)>>)
    /\ V(lines)[2] = Ln("G1", <<Tok("X", N170), Tok("Y", N10)>>)
    /\ V(lines)[3] = Ln("G1", <<Tok("X", N80), Tok("Y", N10)>>)
    /\ first_object_start_x = Some(170000)

\* C8: the rewriter takes the lines once each, in order, emits one line per
\* input line at the same position and stops after the last one, so the
\* output has as many lines as the input.
C8_LineCount ==
    (output_lines # None) =>
        /\ rw_i \in 1..(Len(V(lines)) + 1)
        /\ Len(V(output_lines)) = rw_i - 1
        /\ \A k \in 1..Len(V(output_lines)) :
                /\ V(output_lines)[k].cmd = V(lines)[k].cmd
                /\ V(output_lines)[k].indent = V(lines)[k].indent
                /\ Len(V(output_lines)[k].toks) = Len(V(lines)[k].toks)
        /\ (rw_i > Len(V(lines))) => ~ENABLED RewriteStep
        /\ (pc # "rewrite") => (Len(V(output_lines)) = Len(V(lines)))
        /\ Written => (Len(disk) = Len(disk0))

C8_Witness ==
    /\ Finished
    /\ Written
    /\ Len(disk) = 3
    /\ disk[1] # disk0[1]
    /\ V(purge_block_processed)
    /\ disk[3] = disk0[3]

\* C9: an X value v rewritten by the probe rule, or by the purge rule with
\* the flag false, becomes round(v + offset, 1); rewritten by the purge rule
\* with the flag true it becomes round(offset + 66 - v, 1); the result always
\* has exactly one decimal digit.
C9_Rounding ==
    \A k \in 1..Len(rule) :
        \A t \in XWords(V(lines)[k]) :
            LET v   == ParseFloat(V(lines)[k].toks[t].num)
                out == V(output_lines)[k].toks[t].num
                off == V(selected_purge_slot) * 46 * 1000
            IN  /\ (rule[k] = "shift_x") => Shows(out, v + off)
                /\ (rule[k] = "shift_flip_x" /\ ~V(reverse_purge)) =>
                        Shows(out, v + off)
                /\ (rule[k] = "shift_flip_x" /\ V(reverse_purge)) =>
                        Shows(out, off + 66000 - v)

C9_Witness ==
    /\ Len(rule) = 3
    /\ rule[1] = "shift_x"
    /\ V(lines)[1].toks[1].num = N10_25
    /\ V(output_lines)[1].toks[1].num = <<"1", "0", "2", ".", "2">>
    /\ rule[2] = "shift_flip_x"
    /\ V(reverse_purge)
    /\ V(lines)[2].toks[1].num = N10
    /\ V(output_lines)[2].toks[1].num = <<"1", "4", "8", ".", "0">>

\* C10: with one argument it is the file path and the mask is "11111"; with
\* two the first is the mask and the second the file path; with any other
\* count the run prints usage and exits non-zero before any mask validation,
\* file access or slot selection.
C10_Arguments ==
    (pc # "params") =>
        CASE Len(sys_argv) = 2 ->
                /\ gcode_file = Some(sys_argv[2])
                /\ inclusion_mask = Some(M11111)
                /\ err \notin {"usage", "mask"}
          [] Len(sys_argv) = 3 ->
                /\ gcode_file = Some(sys_argv[3])
                /\ inclusion_mask \in {None, Some(sys_argv[2])}
                /\ err # "usage"
          [] OTHER ->
                /\ Finished
                /\ err = "usage"
                /\ V(exitCode) # 0
                /\ inclusion_mask = None
                /\ gcode_file = None
                /\ opens = 0
                /\ lines = None
                /\ selected_purge_slot = None
                /\ disk = disk0

C10_Witness ==
    /\ Finished
    /\ err = "usage"
    /\ Len(sys_argv) = 4
    /\ MaskOk(sys_argv[2])

\* the three states of the rewrite pass
Rewriting == in_purge_block # None
OutsidePurgeBlock ==
    Rewriting /\ ~V(in_purge_block) /\ ~V(purge_block_processed)
InPurgeBlock ==
    Rewriting /\ V(in_purge_block) /\ ~V(purge_block_processed)
PurgeProcessed ==
    Rewriting /\ ~V(in_purge_block) /\ V(purge_block_processed)

\* the pass is over: the loop has taken every line
PassOver == Rewriting /\ rw_i > Len(V(lines))

\* the step is an iteration of the rewrite loop, on the line Current
LoopStep == pc = "rewrite" /\ rw_i' = rw_i + 1
Current == V(lines)[rw_i]
Emitted == V(output_lines')[rw_i]

\* C11 as stated: in every run that passes the analyzer the rewriter leaves
\* Outside-Purge-Block once and In-Purge-Block once, so the pass ends in
\* Purge-Processed.
C11_AsStated == PassOver => PurgeProcessed

\* C12 as stated: the line the analyzer selects as the first object's start,
\* and every line after it, is emitted unchanged.
C12_AsStated ==
    Rewriting =>
        \A k \in 1..Len(V(output_lines)) :
            (k >= FirstQualifying(V(lines))) => (V(output_lines)[k] = V(lines)[k])

\* C13: the rewrite state starts in Outside-Purge-Block, only moves Outside ->
\* In -> Processed, never from Outside straight to Processed and never back;
\* the two flags are never both true.
C13_Monotonic ==
    [][ /\ Rewriting' =>
            (OutsidePurgeBlock' \/ InPurgeBlock' \/ PurgeProcessed')
        /\ (~Rewriting /\ Rewriting') => OutsidePurgeBlock'
        /\ OutsidePurgeBlock => (OutsidePurgeBlock' \/ InPurgeBlock')
        /\ InPurgeBlock => (InPurgeBlock' \/ PurgeProcessed')
        /\ PurgeProcessed => PurgeProcessed' ]_vars

C13_Witness ==
    /\ PurgeProcessed
    /\ rw_i = 3
    /\ V(lines)[1].cmd = "G0"
    /\ V(lines)[2].cmd = "G1"
    /\ Len(V(lines)) = 3

\* C14: once in Purge-Processed every further line is emitted verbatim,
\* whatever its command and coordinates, and the state stays the same.
C14_ProcessedVerbatim ==
    [][ (LoopStep /\ PurgeProcessed) =>
            /\ Emitted = Current
            /\ PurgeProcessed' ]_vars

C14_Witness ==
    /\ PurgeProcessed
    /\ rw_i = 4
    /\ V(lines)[3] = Ln("G29", <<Tok("X", N10_25), Tok("Y", Nm4)>>)
    /\ V(output_lines)[3] = V(lines)[3]
    /\ V(selected_purge_slot) = 2

\* the words of the emitted line that are not X words are those of the input
OthersKept ==
    /\ Emitted.cmd = Current.cmd
    /\ Emitted.indent = Current.indent
    /\ Len(Emitted.toks) = Len(Current.toks)
    /\ \A t \in (1..Len(Current.toks)) \ XWords(Current) :
            Emitted.toks[t] = Current.toks[t]

\* every X word of the emitted line is X followed by the rounded sum of the
\* input value and the offset
AllShifted ==
    \A t \in XWords(Current) :
        /\ Emitted.toks[t].axis = "X"
        /\ Shows(Emitted.toks[t].num,
                 ParseFloat(Current.toks[t].num)
                     + V(selected_purge_slot) * 46 * 1000)

\* every X word of the emitted line is X followed by the rounded mirror image
\* of the input value in the window of the slot
AllMirrored ==
    \A t \in XWords(Current) :
        /\ Emitted.toks[t].axis = "X"
        /\ Shows(Emitted.toks[t].num,
                 (V(selected_purge_slot) * 46 + 66) * 1000
                     - ParseFloat(Current.toks[t].num))

\* C15: a G0 line with negative Y met in Outside-Purge-Block moves the state
\* to In-Purge-Block and is rewritten in the same step as the first line of
\* the purge block: by rule 3 (shifted when the flag is false, mirrored when
\* true), not by rule 2, and once.
C15_EntryLine ==
    [][ (LoopStep /\ OutsidePurgeBlock /\ OpensPurge(Current)) =>
            /\ InPurgeBlock'
            /\ Len(V(output_lines')) = Len(V(output_lines)) + 1
            /\ rule'[rw_i] = "shift_flip_x"
            /\ OthersKept
            /\ IF V(reverse_purge) THEN AllMirrored ELSE AllShifted ]_vars

C15_Witness ==
    /\ InPurgeBlock
    /\ rw_i = 2
    /\ V(lines)[1] = Ln("G0", <<Tok("X", N10), Tok("Y", Nm5)>>)
    /\ V(reverse_purge)
    /\ V(selected_purge_slot) = 2
    /\ rule[1] = "shift_flip_x"
    /\ V(output_lines)[1] = G0_148

C17_PurgeBlock ==
    [][ (LoopStep /\ InPurgeBlock) =>
            /\ (Emitted # Current) => (Current.cmd = "G0")
            /\ (Current.cmd = "G0") =>
                    /\ rule'[rw_i] = "shift_flip_x"
                    /\ OthersKept
                    /\ IF V(reverse_purge) THEN AllMirrored ELSE AllShifted
            /\ IF Current.cmd = "G1" /\ HasY(Current) /\ FirstY(Current) > 0
               THEN PurgeProcessed' /\ Emitted = Current
               ELSE InPurgeBlock'
            /\ (Current.cmd = "G1") => (Emitted = Current) ]_vars

C17_Witness ==
    /\ PurgeProcessed
    /\ rw_i = 4
    /\ Len(V(lines)) = 3
    /\ V(lines)[1] = Ln("G0", <<Tok("X", N10), Tok("Y", Nm5)>>)
    /\ V(lines)[2] = Ln("G1", <<Tok("X", N5), Tok("Y", N0)>>)
    /\ V(lines)[3] = Ln("G1", <<Tok("X", N170), Tok("Y", N10)>>)
    /\ V(output_lines)[2] = V(lines)[2]
    /\ V(output_lines)[3] = V(lines)[3]
    /\ V(selected_purge_slot) = 2

\* C18: the flag is true iff |x0 - (offset + 66)| > |x0 - offset|, x0 being
\* the X of the first qualifying line; equal distances give false; flag and
\* offset are set before the rewrite pass and do not change afterwards.
C18_FlagOnce ==
    [][ /\ (reverse_purge = None /\ reverse_purge' # None) =>
            LET x0  == ParseFloat(
                         V(lines)[FirstQualifying(V(lines))].toks[1].num)
                off == V(selected_purge_slot) * 46 * 1000
            IN  /\ V(offset) * 1000 = off
                /\ V(reverse_purge') <=>
                        (Abs(x0 - (off + 66000)) > Abs(x0 - off))
                /\ (x0 = off + 33000) => ~V(reverse_purge')
        /\ Rewriting' => (reverse_purge' # None /\ offset' # None)
        /\ (reverse_purge' # None) =>
                /\ offset' = offset
                /\ selected_purge_slot' = selected_purge_slot
                /\ lines' = lines
        /\ (reverse_purge # None) => (reverse_purge' = reverse_purge) ]_vars

C18_Witness ==
    /\ PassOver
    /\ V(selected_purge_slot) = 3
    /\ V(first_object_start_x) = 170000
    /\ V(reverse_purge)
    /\ \E k \in 1..Len(rule) : rule[k] = "shift_flip_x"

\* the on-bed range of a slot, in thousandths
OnBed(slot) == (slot * 46000 + 15000)..(slot * 46000 + 51000)

\* C19: with offset = slot*46, the purge rewrite in either direction sends
\* the window [0, 66] onto [offset, offset + 66] and the on-bed range
\* [15, 51] onto [offset + 15, offset + 51], so the on-bed ranges of two
\* different slots never meet.
C19_OnBedPreserved ==
    (Rewriting /\ rw_i > 1) =>
        LET slot == V(selected_purge_slot)
            lo   == slot * 46000
            v    == ParseFloat(V(lines)[1].toks[1].num)
            out  == ParseFloat(V(output_lines)[1].toks[1].num)
        IN  /\ slot \in 0..4
            /\ V(offset) = slot * 46
            /\ (v \in 0..66000) => (out \in lo..(lo + 66000))
            /\ (v \in {0, 66000}) => (out \in {lo, lo + 66000})
            /\ (v \in 15000..51000) <=> (out \in OnBed(slot))
            /\ (v \in {15000, 51000}) => (out \in {lo + 15000, lo + 51000})
            /\ Abs(out - (lo + 33000)) = Abs(v - 33000)
            /\ (v \in 15000..51000) =>
                    \A other \in (0..4) \ {slot} : out \notin OnBed(other)

C19_Witness ==
    /\ PassOver
    /\ V(reverse_purge)
    /\ V(selected_purge_slot) = 3
    /\ V(lines)[1].toks[1].num = <<"1", "5">>
    /\ V(output_lines)[1].toks[1].num = <<"1", "8", "9", ".", "0">>
====
